---------------------------- MODULE Spec2Model ----------------------------
(***************************************************************************)
(* RFM pipeline of src/Project1.py (steps 5 and 10-12): line totals, the   *)
(* per-customer groupby aggregation, the three pd.qcut scorings, the       *)
(* segment code and tier label, and the export of the result.              *)
(*                                                                         *)
(* Spec is a run of the file: lines 209-216 are shell commands, so the     *)
(* file does not compile and a run ends in a SyntaxError before its first  *)
(* statement.  SpecRfm, SpecScore and SpecClassify apply the statements of *)
(* steps 5 and 10-12 as functions of their inputs, and SpecSteps executes  *)
(* the statements of lines 49-155 one after the other on a df.             *)
(*                                                                         *)
(* Abstractions: timestamps are whole numbers of ticks, DayLen ticks to a  *)
(* day; prices are whole currency units, so sums and quartile cut points   *)
(* are exact (cut points are kept multiplied by Q); a string is the        *)
(* sequence of its characters; a column that a frame does not have yet is  *)
(* the empty sequence; NaN is 0.                                           *)
(***************************************************************************)
EXTENDS Integers, Sequences, FiniteSets

VARIABLES retail, pc, csv, arg, ret

vars == <<retail, pc, csv, arg, ret>>

(* ------------------------------ bounds --------------------------------- *)

MaxTx == 2
MaxPop == 3
MaxN == 5
MaxVal == 5

CustomerIDs == {1, 2}
InvoiceNos == {1, 2}
InvoiceDates == {0, 1, 4}
Quantities == {1, 2}
UnitPrices == {5, 7}
Recencies == 1..3
Frequencies == 1..2
Monetaries == 1..3

(* --------------------------- program constants ------------------------- *)

DayLen == 2
Q == 4
NaN == 0
R_Labels == <<4, 3, 2, 1>>
F_Labels == <<1, 2, 3, 4>>
M_Labels == <<1, 2, 3, 4>>

(* ------------------------------ helpers -------------------------------- *)

Range(s) == {s[i] : i \in DOMAIN s}

SetMax(S) == CHOOSE v \in S : \A w \in S : w <= v

SetMin(S) == CHOOSE v \in S : \A w \in S : v <= w

\* the values of x in ascending order
SortAsc(x) ==
  [i \in 1..Len(x) |->
     CHOOSE v \in Range(x) :
        /\ Cardinality({j \in DOMAIN x : x[j] < v}) < i
        /\ i <= Cardinality({j \in DOMAIN x : x[j] <= v})]

\* the elements of a set of integers in ascending order
SortedKeys(S) ==
  [i \in 1..Cardinality(S) |->
     CHOOSE v \in S : Cardinality({w \in S : w < v}) = i - 1]

(* --------------------------- step 5: line total ------------------------ *)

TotalPrice(quantity, unitPrice) == quantity * unitPrice

WithTotalPrice(row) ==
  [CustomerID |-> row.CustomerID, InvoiceNo |-> row.InvoiceNo,
   InvoiceDate |-> row.InvoiceDate, Quantity |-> row.Quantity,
   UnitPrice |-> row.UnitPrice,
   TotalPrice |-> TotalPrice(row.Quantity, row.UnitPrice)]

(* --------------------------- step 10: aggregation ---------------------- *)

reference_date(frame) ==
  SetMax({frame[j].InvoiceDate : j \in DOMAIN frame}) + DayLen

\* the row positions of one group of the groupby
GroupRows(frame, c) == {j \in DOMAIN frame : frame[j].CustomerID = c}

\* Timedelta.days: whole days, rounded down
Days(ticks) == ticks \div DayLen

RecencyOf(frame, c) ==
  Days(reference_date(frame)
         - SetMax({frame[j].InvoiceDate : j \in GroupRows(frame, c)}))

NUniqueCount(frame, c) == Cardinality(GroupRows(frame, c))

\* nunique: a row counts when no earlier row of the group has its invoice
NUnique(frame, c) ==
  Cardinality({j \in GroupRows(frame, c) :
                 \A k \in GroupRows(frame, c) :
                    k < j => frame[k].InvoiceNo # frame[j].InvoiceNo})

RECURSIVE SumTotalPrice(_, _, _)
\* sum over the first n rows of the frame that belong to group c
SumTotalPrice(frame, c, n) ==
  IF n = 0 THEN 0
  ELSE SumTotalPrice(frame, c, n - 1)
         + (IF frame[n].CustomerID = c THEN frame[n].TotalPrice ELSE 0)

MonetaryOf(frame, c) == SumTotalPrice(frame, c, Len(frame))

GroupKeysPerRow(frame) == [j \in DOMAIN frame |-> frame[j].CustomerID]

\* groupby('CustomerID'): one group per distinct key, keys ascending
GroupKeys(frame) == SortedKeys({frame[j].CustomerID : j \in DOMAIN frame})

EmptyFrame ==
  [CustomerID |-> <<>>, Recency |-> <<>>, Frequency |-> <<>>,
   Monetary |-> <<>>, R_Score |-> <<>>, F_Score |-> <<>>, M_Score |-> <<>>,
   RFM_Segment |-> <<>>, RFM_Level |-> <<>>]

Aggregated(frame) ==
  LET keys == GroupKeys(frame) IN
  [EmptyFrame EXCEPT
     !.CustomerID = keys,
     !.Recency = [i \in DOMAIN keys |-> RecencyOf(frame, keys[i])],
     !.Frequency = [i \in DOMAIN keys |-> NUnique(frame, keys[i])],
     !.Monetary = [i \in DOMAIN keys |-> MonetaryOf(frame, keys[i])]]

(* --------------------------- step 11: scoring -------------------------- *)

QuantileLower(x, k) == Q * SortAsc(x)[((Len(x) - 1) * k) \div Q + 1]

\* Q times the k/Q quantile of x, by linear interpolation between the two
\* nearest order statistics
Quantile(x, k) ==
  LET s == SortAsc(x)
      n == Len(x)
      pos == (n - 1) * k
      lo == pos \div Q
      g == pos % Q
      a == s[lo + 1]
      b == s[IF lo + 2 <= n THEN lo + 2 ELSE n]
  IN Q * a + g * (b - a)

\* the Q+1 bin edges (times Q)
Bins(x) == [k \in 1..(Q + 1) |-> Quantile(x, k - 1)]

EdgesUnique(bins) ==
  \A j, k \in DOMAIN bins : j # k => bins[j] # bins[k]

\* searchsorted(side='right'): the number of edges at or below v
SearchSortedRight(bins, v) ==
  Cardinality({j \in DOMAIN bins : bins[j] <= Q * v})

\* searchsorted(side='left'): the number of edges strictly below v
SearchSorted(bins, v) ==
  Cardinality({j \in DOMAIN bins : bins[j] < Q * v})

\* the bin number of v: right-closed bins, the lowest edge included
BinId(bins, v) ==
  IF Q * v = bins[1] THEN 1 ELSE SearchSorted(bins, v)

Raised == [raised |-> TRUE, values |-> <<>>]

QcutStrict(x, labels) ==
  LET bins == Bins(x) IN
  IF Len(x) < Q \/ ~EdgesUnique(bins) THEN Raised
  ELSE [raised |-> FALSE,
        values |-> [i \in DOMAIN x |-> labels[BinId(bins, x[i])]]]

\* pd.qcut(x, q=Q, labels=labels): ValueError when two edges coincide
Qcut(x, labels) ==
  IF x = <<>> THEN Raised
  ELSE LET bins == Bins(x) IN
       IF ~EdgesUnique(bins) THEN Raised
       ELSE [raised |-> FALSE,
             values |-> [i \in DOMAIN x |->
                LET id == BinId(bins, x[i]) IN
                IF id = 0 \/ id = Len(bins) THEN NaN ELSE labels[id]]]

RankMin(x) ==
  [i \in DOMAIN x |-> 1 + Cardinality({j \in DOMAIN x : x[j] < x[i]})]

\* Series.rank(method='first'): ascending, ties in order of appearance
Rank(x) ==
  [i \in DOMAIN x |->
     1 + Cardinality({j \in DOMAIN x : x[j] < x[i]})
       + Cardinality({j \in DOMAIN x : j < i /\ x[j] = x[i]})]

R_ScoreAscending(recency) == Qcut(recency, F_Labels)

R_Score(recency) == Qcut(recency, R_Labels)

F_ScoreNoRank(frequency) == Qcut(frequency, F_Labels)

F_Score(frequency) == Qcut(Rank(frequency), F_Labels)

M_Score(monetary) == Qcut(monetary, M_Labels)

(* --------------------------- step 12: segments ------------------------- *)

\* astype(str) of a score
Str(score) ==
  IF score = NaN THEN <<"n", "a", "n">>
  ELSE <<CASE score = 1 -> "1" [] score = 2 -> "2"
           [] score = 3 -> "3" [] OTHER -> "4">>

RFM_Segment(r, f, m) == Str(r) \o Str(f) \o Str(m)

RFM_LevelLoyalFirst(x) ==
  IF x[1] = "4" THEN "Loyal"
  ELSE IF x = <<"4", "4", "4">> THEN "Champions"
  ELSE IF x[1] = "1" THEN "At Risk" ELSE "Others"

RFM_Level(x) ==
  IF x = <<"4", "4", "4">> THEN "Champions"
  ELSE IF x[1] = "4" THEN "Loyal"
  ELSE IF x[1] = "1" THEN "At Risk" ELSE "Others"

(* ------------------------------ inputs --------------------------------- *)

Rows ==
  [CustomerID : CustomerIDs, InvoiceNo : InvoiceNos,
   InvoiceDate : InvoiceDates, Quantity : Quantities, UnitPrice : UnitPrices]

SeqsUpTo(S, n) == UNION {[1..k -> S] : k \in 1..n}

Row(c, inv, date, qty, price) ==
  [CustomerID |-> c, InvoiceNo |-> inv, InvoiceDate |-> date,
   Quantity |-> qty, UnitPrice |-> price]

\* (C1,inv1,day0,2,5), (C1,inv1,day0,1,5), (C2,inv2,day10,1,1000)
ExampleDf ==
  <<Row(1, 1, 0, 2, 5), Row(1, 1, 0, 1, 5), Row(2, 2, 10 * DayLen, 1, 1000)>>

Profiles ==
  {p \in [Recency : Recencies, Frequency : Frequencies, Monetary : Monetaries] :
     p.Monetary >= p.Frequency}

Populations ==
  {pop \in SeqsUpTo(Profiles, MaxPop) : \E i \in DOMAIN pop : pop[i].Recency = 1}

\* the invoices of customer i of a population: one row each, the customer's
\* latest purchase pop[i].Recency days before the reference date
LedgerRows(pop, i) ==
  LET last == SetMax({pop[k].Recency : k \in DOMAIN pop}) IN
  [j \in 1..pop[i].Frequency |->
     Row(i, 10 * i + j, DayLen * (last - pop[i].Recency), 1,
         IF j = 1 THEN pop[i].Monetary - (pop[i].Frequency - 1) ELSE 1)]

RECURSIVE Ledger(_, _)
Ledger(pop, n) ==
  IF n = 0 THEN <<>> ELSE Ledger(pop, n - 1) \o LedgerRows(pop, n)

Columns == SeqsUpTo(1..MaxVal, MaxN)

Scores == 1..Q

NoCall == [fn |-> "none", raised |-> FALSE, values |-> <<>>]

(* ---------------- steps 5 and 10-12 as one function of df -------------- *)

\* line 49
WithTotals(frame) == [j \in DOMAIN frame |-> WithTotalPrice(frame[j])]

\* lines 135-137: the three assignments in order; the first qcut that raises
\* ends them, leaving the columns assigned so far
Scored(t) ==
  LET r == R_Score(t.Recency)
      f == F_Score(t.Frequency)
      m == M_Score(t.Monetary)
  IN IF r.raised THEN [raised |-> TRUE, frame |-> t]
     ELSE IF f.raised
     THEN [raised |-> TRUE, frame |-> [t EXCEPT !.R_Score = r.values]]
     ELSE IF m.raised
     THEN [raised |-> TRUE,
           frame |-> [t EXCEPT !.R_Score = r.values, !.F_Score = f.values]]
     ELSE [raised |-> FALSE,
           frame |-> [t EXCEPT !.R_Score = r.values, !.F_Score = f.values,
                               !.M_Score = m.values]]

\* line 142
Segmented(t) ==
  [t EXCEPT !.RFM_Segment =
     [i \in DOMAIN t.CustomerID |->
        RFM_Segment(t.R_Score[i], t.F_Score[i], t.M_Score[i])]]

\* lines 144-150
Levelled(t) ==
  [t EXCEPT !.RFM_Level =
     [i \in DOMAIN t.CustomerID |-> RFM_Level(t.RFM_Segment[i])]]

\* lines 49 and 122-150 on a cleaned df: the rfm frame at the end, or at the
\* statement that raised
RFM(frame) ==
  LET s == Scored(Aggregated(WithTotals(frame))) IN
  IF s.raised THEN s
  ELSE [raised |-> FALSE, frame |-> Levelled(Segmented(s.frame))]

(* --------------------------- a run of the file -------------------------- *)

\* the lines of the file that are not Python: git init, git remote add ...,
\* git add ., git commit ..., git branch ..., git push ...
ShellLines == {209, 211, 213, 214, 215, 216}

Compiles == ShellLines = {}

Inputs == SeqsUpTo(Rows, MaxTx) \cup {ExampleDf}

Init ==
  /\ retail \in Inputs
  /\ pc = "compile"
  /\ csv = <<>>
  /\ arg = <<>>
  /\ ret = NoCall

\* python Project1.py: the file is compiled whole before its first statement
\* runs; a file that compiles runs line 49 to line 155 (rfm.to_csv)
Compile ==
  /\ pc = "compile"
  /\ IF ~Compiles
     THEN pc' = "SyntaxError" /\ csv' = csv
     ELSE LET r == RFM(retail) IN
          IF r.raised
          THEN pc' = "ValueError" /\ csv' = csv
          ELSE pc' = "done" /\ csv' = <<r.frame>>
  /\ UNCHANGED <<retail, arg, ret>>

Next == Compile

Spec == Init /\ [][Next]_vars

(* --------- aggregation and the whole of steps 5, 10-12 as functions ----- *)

InitRfm ==
  /\ arg \in Inputs \cup {Ledger(pop, Len(pop)) : pop \in Populations}
  /\ ret = NoCall
  /\ retail = <<>>
  /\ pc = "call"
  /\ csv = <<>>

CallAggregate ==
  /\ pc = "call"
  /\ ret' = [fn |-> "Aggregated", raised |-> FALSE,
             values |-> <<Aggregated(WithTotals(arg))>>]
  /\ pc' = "returned"
  /\ UNCHANGED <<retail, csv, arg>>

CallRFM ==
  /\ pc = "call"
  /\ ret' = LET r == RFM(arg) IN
            [fn |-> "RFM", raised |-> r.raised, values |-> <<r.frame>>]
  /\ pc' = "returned"
  /\ UNCHANGED <<retail, csv, arg>>

NextRfm ==
  \/ CallAggregate
  \/ CallRFM

SpecRfm == InitRfm /\ [][NextRfm]_vars

(* ------------- lines 49-155 executed statement by statement ------------ *)

\* In SpecSteps arg is df, ret.values[1] is rfm (ret.fn = "rfm" once line 124
\* has assigned it), ret.raised is an uncaught exception, csv is
\* RFM_Segments.csv and pc is the statement about to run.

InitSteps ==
  /\ arg \in Inputs \cup {Ledger(pop, Len(pop)) : pop \in Populations}
  /\ ret = NoCall
  /\ retail = <<>>
  /\ pc = "total_price"
  /\ csv = <<>>

\* line 49
StepTotalPrice ==
  /\ pc = "total_price"
  /\ arg' = WithTotals(arg)
  /\ pc' = "aggregate"
  /\ UNCHANGED <<retail, csv, ret>>

\* lines 122-130
StepAggregate ==
  /\ pc = "aggregate"
  /\ ret' = [fn |-> "rfm", raised |-> FALSE, values |-> <<Aggregated(arg)>>]
  /\ pc' = "score_r"
  /\ UNCHANGED <<retail, csv, arg>>

\* the effect of an assignment rfm[column] = qcut(...): the column is added,
\* or the exception of qcut ends the script
Assigned(s, column, next) ==
  IF s.raised
  THEN ret' = [ret EXCEPT !.raised = TRUE] /\ pc' = "ValueError"
  ELSE ret' = [ret EXCEPT !.values[1][column] = s.values] /\ pc' = next

\* line 135
StepScoreR ==
  /\ pc = "score_r"
  /\ Assigned(R_Score(ret.values[1].Recency), "R_Score", "score_f")
  /\ UNCHANGED <<retail, csv, arg>>

\* line 136
StepScoreF ==
  /\ pc = "score_f"
  /\ Assigned(F_Score(ret.values[1].Frequency), "F_Score", "score_m")
  /\ UNCHANGED <<retail, csv, arg>>

\* a scoring that catches the exception, scores everyone 1 and goes on
StepScoreMCaught ==
  /\ pc = "score_m"
  /\ LET s == M_Score(ret.values[1].Monetary) IN
     Assigned([raised |-> FALSE,
               values |-> IF s.raised
                          THEN [i \in DOMAIN ret.values[1].Monetary |-> 1]
                          ELSE s.values],
              "M_Score", "segment")
  /\ UNCHANGED <<retail, csv, arg>>

\* line 137
StepScoreM ==
  /\ pc = "score_m"
  /\ Assigned(M_Score(ret.values[1].Monetary), "M_Score", "segment")
  /\ UNCHANGED <<retail, csv, arg>>

\* line 142
StepSegment ==
  /\ pc = "segment"
  /\ ret' = [ret EXCEPT !.values[1] = Segmented(@)]
  /\ pc' = "level"
  /\ UNCHANGED <<retail, csv, arg>>

\* lines 144-150
StepLevel ==
  /\ pc = "level"
  /\ ret' = [ret EXCEPT !.values[1] = Levelled(@)]
  /\ pc' = "to_csv"
  /\ UNCHANGED <<retail, csv, arg>>

\* line 155
StepToCsv ==
  /\ pc = "to_csv"
  /\ csv' = <<ret.values[1]>>
  /\ pc' = "done"
  /\ UNCHANGED <<retail, arg, ret>>

NextSteps ==
  \/ StepTotalPrice
  \/ StepAggregate
  \/ StepScoreR
  \/ StepScoreF
  \/ StepScoreM
  \/ StepSegment
  \/ StepLevel
  \/ StepToCsv

SpecSteps == InitSteps /\ [][NextSteps]_vars

(* ------------------- the scorers as functions of a column -------------- *)

InitScore ==
  /\ arg \in Columns
  /\ ret = NoCall
  /\ retail = <<>>
  /\ pc = "call"
  /\ csv = <<>>

Returned(fn, s) == [fn |-> fn, raised |-> s.raised, values |-> s.values]

CallRScore ==
  /\ pc = "call"
  /\ ret' = Returned("R_Score", R_Score(arg))
  /\ pc' = "returned"
  /\ UNCHANGED <<retail, csv, arg>>

CallFScore ==
  /\ pc = "call"
  /\ ret' = Returned("F_Score", F_Score(arg))
  /\ pc' = "returned"
  /\ UNCHANGED <<retail, csv, arg>>

CallMScore ==
  /\ pc = "call"
  /\ ret' = Returned("M_Score", M_Score(arg))
  /\ pc' = "returned"
  /\ UNCHANGED <<retail, csv, arg>>

NextScore ==
  \/ CallRScore
  \/ CallFScore
  \/ CallMScore

SpecScore == InitScore /\ [][NextScore]_vars

(* ------------------ the classifier as a function of a triple ----------- *)

InitClassify ==
  /\ arg \in [1..3 -> Scores]
  /\ ret = NoCall
  /\ retail = <<>>
  /\ pc = "call"
  /\ csv = <<>>

CallSegment ==
  /\ pc = "call"
  /\ ret' = [fn |-> "RFM_Segment", raised |-> FALSE,
             values |-> <<RFM_Segment(arg[1], arg[2], arg[3])>>]
  /\ pc' = "segmented"
  /\ UNCHANGED <<retail, csv, arg>>

CallLevel ==
  /\ pc = "segmented"
  /\ ret' = [fn |-> "RFM_Level", raised |-> FALSE,
             values |-> <<ret.values[1], RFM_Level(ret.values[1])>>]
  /\ pc' = "returned"
  /\ UNCHANGED <<retail, csv, arg>>

NextClassify ==
  \/ CallSegment
  \/ CallLevel

SpecClassify == InitClassify /\ [][NextClassify]_vars

(* ------------------------------ claims --------------------------------- *)

TierLabels == {"Champions", "Loyal", "At Risk", "Others"}

Digits == <<"1", "2", "3", "4">>

InputCustomers == {arg[j].CustomerID : j \in DOMAIN arg}

NoRepeats(s) == Cardinality(Range(s)) = Len(s)

\* the lengths of the metric, score, code and label columns of a frame
ColumnLengths(t) ==
  {Len(t.Recency), Len(t.Frequency), Len(t.Monetary), Len(t.R_Score),
   Len(t.F_Score), Len(t.M_Score), Len(t.RFM_Segment), Len(t.RFM_Level)}

RECURSIVE LineSum(_, _)
LineSum(frame, S) ==
  IF S = {} THEN 0
  ELSE LET j == CHOOSE k \in S : TRUE IN
       frame[j].Quantity * frame[j].UnitPrice + LineSum(frame, S \ {j})

\* C1: the aggregated frame holds exactly the distinct customer ids of the
\* input, each once, with one Recency, Frequency and Monetary value each;
\* and whenever steps 5 and 10-12 produce their result, it holds the same
\* customers, each once, each with one R, F and M score in 1..4, one
\* three-character segment code and one tier label.
C1_OneRecordPerCustomer ==
  /\ ret.fn = "Aggregated" =>
       LET t == ret.values[1] IN
       /\ Range(t.CustomerID) = InputCustomers
       /\ NoRepeats(t.CustomerID)
       /\ Len(t.Recency) = Len(t.CustomerID)
       /\ Len(t.Frequency) = Len(t.CustomerID)
       /\ Len(t.Monetary) = Len(t.CustomerID)
  /\ (ret.fn = "RFM" /\ ~ret.raised) =>
       LET t == ret.values[1]
           n == Len(t.CustomerID)
       IN /\ Range(t.CustomerID) = InputCustomers
          /\ NoRepeats(t.CustomerID)
          /\ ColumnLengths(t) = {n}
          /\ \A i \in 1..n :
                /\ t.R_Score[i] \in 1..4
                /\ t.F_Score[i] \in 1..4
                /\ t.M_Score[i] \in 1..4
                /\ Len(t.RFM_Segment[i]) = 3
                /\ t.RFM_Level[i] \in TierLabels

\* C1 witness: a result for three customers, one of them with several
\* transactions
C1_Witness ==
  /\ ret.fn = "RFM"
  /\ ~ret.raised
  /\ Len(ret.values[1].CustomerID) = 3
  /\ Len(ret.values[1].RFM_Level) = 3
  /\ Len(arg) > 3

\* C3: in the aggregated frame every customer's Recency is the whole number
\* of days from that customer's latest invoice date to the reference date
\* (the latest invoice date of all plus one day), Frequency is the number of
\* distinct invoice numbers of the customer, and Monetary is the sum of
\* quantity times unit price over the customer's transactions; the example
\* of three transactions gives C1 = (11, 1, 15) and C2 = (1, 1, 1000).
C3_Aggregates ==
  ret.fn = "Aggregated" =>
    LET t == ret.values[1] IN
    /\ \A i \in DOMAIN t.CustomerID :
         LET rows == {j \in DOMAIN arg : arg[j].CustomerID = t.CustomerID[i]}
             ref == DayLen + SetMax({arg[j].InvoiceDate : j \in DOMAIN arg})
         IN /\ \E j \in rows :
                 /\ \A k \in rows : arg[k].InvoiceDate <= arg[j].InvoiceDate
                 /\ DayLen * t.Recency[i] <= ref - arg[j].InvoiceDate
                 /\ ref - arg[j].InvoiceDate < DayLen * (t.Recency[i] + 1)
            /\ t.Frequency[i] = Cardinality({arg[j].InvoiceNo : j \in rows})
            /\ t.Monetary[i] = LineSum(arg, rows)
    /\ arg = ExampleDf =>
         /\ t.CustomerID = <<1, 2>>
         /\ t.Recency = <<11, 1>>
         /\ t.Frequency = <<1, 1>>
         /\ t.Monetary = <<15, 1000>>

\* C3 witness: the example has been aggregated
C3_Witness ==
  /\ arg = ExampleDf
  /\ ret.fn = "Aggregated"
  /\ ret.values[1].Monetary = <<15, 1000>>

\* C4 as stated: scoring fewer than 4 customers raises and assigns no score.
C4_SmallPopulationFails ==
  (ret.fn = "RFM" /\ Len(ret.values[1].CustomerID) < 4) =>
    /\ ret.raised
    /\ ret.values[1].R_Score = <<>>
    /\ ret.values[1].F_Score = <<>>
    /\ ret.values[1].M_Score = <<>>

\* C4 amended: on fewer than 4 customers scoring fails exactly when there is
\* a single customer or two customers share a Recency or a Monetary value;
\* with 2 or 3 customers of pairwise distinct Recency and pairwise distinct
\* Monetary all three scores are assigned, and the two-customer example is
\* scored C1 = (1, 1, 1), C2 = (4, 4, 4).
C4_SmallPopulationScores ==
  ret.fn = "RFM" =>
    LET t == ret.values[1]
        n == Len(t.CustomerID)
        degenerate == n = 1 \/ ~NoRepeats(t.Recency) \/ ~NoRepeats(t.Monetary)
    IN n < 4 =>
         /\ ret.raised <=> degenerate
         /\ ~ret.raised =>
              Len(t.R_Score) = n /\ Len(t.F_Score) = n /\ Len(t.M_Score) = n
         /\ arg = ExampleDf =>
              /\ ~ret.raised
              /\ t.R_Score = <<1, 4>>
              /\ t.F_Score = <<1, 4>>
              /\ t.M_Score = <<1, 4>>

\* C4 witness: the two-customer example was scored
C4_Witness ==
  /\ arg = ExampleDf
  /\ ret.fn = "RFM"
  /\ ~ret.raised
  /\ ret.values[1].R_Score = <<1, 4>>
  /\ ret.values[1].M_Score = <<1, 4>>

\* C8: when lines 49-155 are executed in order, the output is written only
\* by the last statement, after aggregation, the three scorings and the
\* classification completed for every customer (no qcut raised, every column
\* is full), and what is written is that complete frame; a qcut that raises
\* ends the execution with nothing written and no segment code or tier label
\* computed for any customer, also when earlier scorings succeeded.
C8_AllOrNothing ==
  /\ csv # <<>> =>
       LET t == csv[1]
           n == Len(t.CustomerID)
       IN /\ pc = "done"
          /\ ~ret.raised
          /\ t = ret.values[1]
          /\ n > 0
          /\ ColumnLengths(t) = {n}
          /\ ~R_Score(t.Recency).raised
          /\ ~F_Score(t.Frequency).raised
          /\ ~M_Score(t.Monetary).raised
  /\ (pc = "ValueError" \/ ret.raised) =>
       /\ pc = "ValueError" /\ ret.raised
       /\ csv = <<>>
       /\ ret.values[1].RFM_Segment = <<>>
       /\ ret.values[1].RFM_Level = <<>>
  /\ (ret.fn = "rfm"
        /\ (R_Score(ret.values[1].Recency).raised
              \/ M_Score(ret.values[1].Monetary).raised)) =>
       pc \in {"score_r", "score_f", "score_m", "ValueError"} /\ csv = <<>>

\* C8 witness: Recency and Frequency were scored for two or more customers,
\* Monetary scoring raised, and nothing was written
C8_Witness ==
  /\ pc = "ValueError"
  /\ ret.raised
  /\ Len(ret.values[1].CustomerID) >= 2
  /\ Len(ret.values[1].R_Score) = Len(ret.values[1].CustomerID)
  /\ Len(ret.values[1].F_Score) = Len(ret.values[1].CustomerID)
  /\ ret.values[1].M_Score = <<>>
  /\ csv = <<>>

AllIdentical(x) == Cardinality(Range(x)) = 1

\* C5 as stated: for each of the three metrics, a column whose values are all
\* identical makes the scoring fail.
C5_IdenticalValuesFail ==
  (pc = "returned" /\ AllIdentical(arg)) => ret.raised

\* C5 amended: a Recency or Monetary column whose values are all identical
\* makes the scoring fail and assigns no score; a Frequency column whose
\* values are all identical fails only when it holds a single customer, and
\* is otherwise scored on its distinct ranks.
C5_IdenticalValues ==
  (pc = "returned" /\ AllIdentical(arg)) =>
    /\ ret.fn \in {"R_Score", "M_Score"} => ret.raised /\ ret.values = <<>>
    /\ ret.fn = "F_Score" =>
         /\ ret.raised <=> Len(arg) = 1
         /\ ~ret.raised => Len(ret.values) = Len(arg)

\* C5 witness: Monetary scoring failed on four or more identical values
C5_Witness ==
  /\ ret.fn = "M_Score"
  /\ Len(arg) >= 4
  /\ AllIdentical(arg)
  /\ ret.raised

\* C6: when Recency scoring succeeds, a smaller Recency never has a smaller
\* score, equal Recency has equal score, the smallest Recency has score 4
\* and the largest has score 1.
C6_RecencyInverted ==
  (ret.fn = "R_Score" /\ ~ret.raised) =>
    /\ Len(ret.values) = Len(arg)
    /\ \A i, j \in DOMAIN arg :
         /\ arg[i] < arg[j] => ret.values[i] >= ret.values[j]
         /\ arg[i] = arg[j] => ret.values[i] = ret.values[j]
    /\ \A i \in DOMAIN arg :
         /\ ret.values[i] \in 1..4
         /\ arg[i] = SetMin(Range(arg)) => ret.values[i] = 4
         /\ arg[i] = SetMax(Range(arg)) => ret.values[i] = 1

\* C6 witness: a full-size population scored, with a more recent customer
\* scored strictly higher and two customers of different Recency scored alike
C6_Witness ==
  /\ ret.fn = "R_Score"
  /\ ~ret.raised
  /\ Len(arg) = MaxN
  /\ \E i, j \in DOMAIN arg : arg[i] < arg[j] /\ ret.values[i] > ret.values[j]
  /\ \E i, j \in DOMAIN arg : arg[i] < arg[j] /\ ret.values[i] = ret.values[j]

\* C7: four customers of pairwise different Recency are scored 4, 3, 2, 1 in
\* order of increasing Recency.
C7_FourDistinct ==
  (ret.fn = "R_Score" /\ Len(arg) = 4 /\ NoRepeats(arg)) =>
    /\ ~ret.raised
    /\ \A i \in DOMAIN arg :
         ret.values[i] = 4 - Cardinality({j \in DOMAIN arg : arg[j] < arg[i]})

\* C7 witness: unevenly spaced increasing Recency scored 4, 3, 2, 1
C7_Witness ==
  /\ ret.fn = "R_Score"
  /\ arg = <<1, 2, 3, 5>>
  /\ ret.values = <<4, 3, 2, 1>>

\* C9: the Frequency ranks are the numbers 1..N, each once, ascending in
\* frequency with equal frequencies ranked in population order; the score is
\* the quartile of the rank (rank 1 in quartile 1, otherwise the quartile
\* whose cut points lie below and at-or-above the rank), so the score never
\* decreases with frequency, and of two customers with equal frequency the
\* earlier never has the higher score.
C9_FrequencyRank ==
  ret.fn = "F_Score" =>
    LET r == Rank(arg)
        n == Len(arg)
        c == Bins(r)
        f == ret.values
    IN /\ Range(r) = 1..n
       /\ \A i, j \in 1..n :
            /\ arg[i] < arg[j] => r[i] < r[j]
            /\ (arg[i] = arg[j] /\ i < j) => r[i] < r[j]
       /\ ~ret.raised =>
            /\ Len(f) = n
            /\ \A i \in 1..n :
                 /\ f[i] \in 1..4
                 /\ \/ r[i] = 1 /\ f[i] = 1
                    \/ c[f[i]] < Q * r[i] /\ Q * r[i] <= c[f[i] + 1]
            /\ \A i, j \in 1..n :
                 /\ r[i] < r[j] => f[i] <= f[j]
                 /\ arg[i] < arg[j] => f[i] <= f[j]
                 /\ (arg[i] = arg[j] /\ i < j) => f[i] <= f[j]

\* C9 witness: two customers with equal frequency got different scores
C9_Witness ==
  /\ ret.fn = "F_Score"
  /\ ~ret.raised
  /\ \E i, j \in DOMAIN arg :
       i < j /\ arg[i] = arg[j] /\ ret.values[i] < ret.values[j]

\* the bin behind a score: Monetary scores are bin numbers, Recency scores
\* are bin numbers counted from the top
BinOfScore(fn, score) == IF fn = "M_Score" THEN score ELSE Q + 1 - score

\* C10: for Monetary and Recency, with cut points c0 <= .. <= c4 running from
\* the minimum to the maximum, every value lies in the bin k with
\* c(k-1) < v <= c(k), the minimum lies in bin 1, the maximum in bin 4, a
\* value equal to an interior cut point lies in the bin below it, and equal
\* values get equal scores.
C10_BoundaryRule ==
  (ret.fn \in {"M_Score", "R_Score"} /\ ~ret.raised) =>
    LET c == Bins(arg)
        bin == [i \in DOMAIN arg |-> BinOfScore(ret.fn, ret.values[i])]
    IN /\ c[1] = Q * SetMin(Range(arg))
       /\ c[Q + 1] = Q * SetMax(Range(arg))
       /\ \A k \in 1..Q : c[k] <= c[k + 1]
       /\ \A i \in DOMAIN arg :
            /\ bin[i] \in 1..Q
            /\ \/ c[bin[i]] < Q * arg[i] /\ Q * arg[i] <= c[bin[i] + 1]
               \/ bin[i] = 1 /\ Q * arg[i] = c[1]
            /\ Q * arg[i] = c[1] => bin[i] = 1
            /\ Q * arg[i] = c[Q + 1] => bin[i] = Q
            /\ \A k \in 2..Q : Q * arg[i] = c[k] => bin[i] = k - 1
       /\ \A i, j \in DOMAIN arg :
            arg[i] = arg[j] => ret.values[i] = ret.values[j]

\* C10 witness: a Monetary value equal to an interior cut point was placed in
\* the bin below it
C10_Witness ==
  /\ ret.fn = "M_Score"
  /\ ~ret.raised
  /\ \E i \in DOMAIN arg : \E k \in 2..Q :
       Q * arg[i] = Bins(arg)[k] /\ ret.values[i] = k - 1

\* C2: the segment code is the three score digits in the order R, F, M, and
\* the tier label is Champions exactly for (4,4,4), Loyal exactly for the
\* other triples with R = 4, At Risk exactly for R = 1 and Others otherwise.
C2_Classifier ==
  (ret.fn = "RFM_Segment" =>
     ret.values[1] = <<Digits[arg[1]], Digits[arg[2]], Digits[arg[3]]>>)
  /\
  (ret.fn = "RFM_Level" =>
     LET label == ret.values[2] IN
     /\ ret.values[1] = <<Digits[arg[1]], Digits[arg[2]], Digits[arg[3]]>>
     /\ label \in TierLabels
     /\ label = "Champions" <=> arg = <<4, 4, 4>>
     /\ label = "Loyal" <=> (arg[1] = 4 /\ arg # <<4, 4, 4>>)
     /\ label = "At Risk" <=> arg[1] = 1
     /\ label = "Others" <=> arg[1] \in {2, 3}
     /\ arg = <<4, 1, 1>> => label = "Loyal")

\* C2 witness: (4,1,1) was labelled Loyal
C2_Witness ==
  /\ ret.fn = "RFM_Level"
  /\ arg = <<4, 1, 1>>
  /\ ret.values = <<<<"4", "1", "1">>, "Loyal">>


=============================================================================
